---------------------------- MODULE Spec2Model ----------------------------
(***************************************************************************)
(* A model of the cube simulation of rust-cubes-demo: src/game/cube.rs     *)
(* (Cube, Subcube, CubeState) and the game tick of src/game/mod.rs.        *)
(*                                                                         *)
(* Numbers.  The program computes in f32.  The model computes in fixed     *)
(* point, rounding every quotient to the nearest unit:                     *)
(*   lengths (segment, subcube_length, pos)  in units of 1/LU,             *)
(*   velocities and angular momenta          in units of 1/LU per second,  *)
(*   quaternion components                   in units of 1/QU,             *)
(*   times (frac, the Rearranging counter p) in units of 1/TU second.      *)
(* Vectors are triples <<x, y, z>>, quaternions are <<s, x, y, z>>.        *)
(***************************************************************************)
EXTENDS Integers, Sequences, FiniteSets, TLC

\* ------------------------------------------------------------------ units

\* Length units per 1.0: halving five times and one division by three are exact.
LU == 64 * 3

\* Quaternion units per 1.0.
QU == 16 * 16

\* Time units per second: GameState::steps_per_second().
TU == 60

\* ------------------------------------------------------------------ bounds

\* The longest sequence of calls on one Cube that is explored.
MaxCalls == 5

\* The largest collection an explosion may produce.
MaxLen == 15

\* The longest sequence of counted calls explored under SpecReset, whose
\* steps in the transient states are not counted.
MaxResetCalls == 4

\* The number of calls that change the cube before the picking queries of SpecPick.
MaxPickCalls == 3

\* The number of ticks with an input explored under SpecWindow.
MaxWindowCommands == 2

\* The number of ticks of SpecMash.
MaxMashTicks == 600

\* The longest sequence of game ticks explored under SpecGame.
MaxTicks == 6

\* The largest collection an explosion may produce when the subdivision count
\* is an argument (SpecExplode): a division in 8 and one in 27 make 34.
MaxPieces == 34

\* ------------------------------------------------------------------ arithmetic

\* a / b for b > 0, rounded to the nearest integer (ties away from zero).
RDiv(a, b) ==
    IF a >= 0 THEN (2 * a + b) \div (2 * b) ELSE -((2 * (-a) + b) \div (2 * b))

Abs(a) == IF a >= 0 THEN a ELSE -a

\* The one element of a singleton set.
The(S) == CHOOSE x \in S : TRUE

RECURSIVE ISqrtBin(_, _, _)
\* The largest r in lo..hi with r*r <= n, given lo*lo <= n.
ISqrtBin(n, lo, hi) ==
    IF lo >= hi THEN lo
    ELSE The({ IF mid * mid <= n THEN ISqrtBin(n, mid, hi) ELSE ISqrtBin(n, lo, mid - 1) :
               mid \in {(lo + hi + 1) \div 2} })

\* The square root of n >= 0, rounded to the nearest integer.
ISqrt(n) ==
    The({ The({ IF v - r * r > r THEN r + 1 ELSE r : r \in {ISqrtBin(v, 0, 46340)} }) :
          v \in {n} })

VZero == <<0, 0, 0>>

VAdd(a, b) == <<a[1] + b[1], a[2] + b[2], a[3] + b[3]>>

VSub(a, b) == <<a[1] - b[1], a[2] - b[2], a[3] - b[3]>>

\* v * num / den
VScale(v, num, den) == <<RDiv(v[1] * num, den), RDiv(v[2] * num, den), RDiv(v[3] * num, den)>>

\* Quaternion::identity()
QIdentity == <<QU, 0, 0, 0>>

\* Quaternion::mul_q: the Hamilton product a * b (each product rounded).
QMul(a, b) ==
    LET m(i, j) == RDiv(a[i] * b[j], QU)
    IN  << m(1, 1) - m(2, 2) - m(3, 3) - m(4, 4),
           m(1, 2) + m(2, 1) + m(3, 4) - m(4, 3),
           m(1, 3) - m(2, 4) + m(3, 1) + m(4, 2),
           m(1, 4) + m(2, 3) - m(3, 2) + m(4, 1) >>

QAdd(a, b) == <<a[1] + b[1], a[2] + b[2], a[3] + b[3], a[4] + b[4]>>

\* |q|^2 in units of 1/QU^2
QMagnitude2(q) == q[1] * q[1] + q[2] * q[2] + q[3] * q[3] + q[4] * q[4]

Max(a, b) == IF a >= b THEN a ELSE b

\* Quaternion::normalize: q * (1 / |q|).  A long quaternion is scaled down
\* before it is squared, which leaves its direction as it is.  (Each
\* intermediate value is bound once, as an element of a singleton set.)
QNormalize(q) ==
    The({ The({ The({ << RDiv(r[1] * QU, len), RDiv(r[2] * QU, len),
                         RDiv(r[3] * QU, len), RDiv(r[4] * QU, len) >> :
                      len \in {ISqrt(QMagnitude2(r))} }) :
                r \in { The({ << RDiv(v[1], k), RDiv(v[2], k), RDiv(v[3], k), RDiv(v[4], k) >> :
                              k \in { Max(Max(Abs(v[1]), Abs(v[2])),
                                          Max(Abs(v[3]), Abs(v[4]))) \div 8192 + 1 } }) } }) :
          v \in {q} })

\* Quaternion::nlerp(other, amount) with amount = num/den:
\* (self * (1 - amount) + other * amount).normalize()
QNlerp(a, b, num, den) ==
    QNormalize(<< RDiv(a[1] * (den - num) + b[1] * num, den),
                  RDiv(a[2] * (den - num) + b[2] * num, den),
                  RDiv(a[3] * (den - num) + b[3] * num, den),
                  RDiv(a[4] * (den - num) + b[4] * num, den) >>)

\* Matrix4::from(Quaternion) applied to the vector v: the rotation of v by q.
QRotate(q, v) ==
    LET s == q[1]
        x == q[2]
        y == q[3]
        z == q[4]
        r11 == QU - RDiv(2 * (y * y + z * z), QU)
        r12 == RDiv(2 * (x * y - s * z), QU)
        r13 == RDiv(2 * (x * z + s * y), QU)
        r21 == RDiv(2 * (x * y + s * z), QU)
        r22 == QU - RDiv(2 * (x * x + z * z), QU)
        r23 == RDiv(2 * (y * z - s * x), QU)
        r31 == RDiv(2 * (x * z - s * y), QU)
        r32 == RDiv(2 * (y * z + s * x), QU)
        r33 == QU - RDiv(2 * (x * x + y * y), QU)
    IN  << RDiv(r11 * v[1] + r12 * v[2] + r13 * v[3], QU),
           RDiv(r21 * v[1] + r22 * v[2] + r23 * v[3], QU),
           RDiv(r31 * v[1] + r32 * v[2] + r33 * v[3], QU) >>

\* ------------------------------------------------------------------ rng

\* StdRng is modelled as a small full-period linear congruential generator:
\* deterministic once seeded, seeded from outside the program.
RngMod == 8 + 8

RngAdvance(r) == (5 * r + 3) % RngMod

\* rng.next_f32() * 2.0 - 1.0 for the generator state r, as a length in 1/LU:
\* next_f32 is r / RngMod, in [0, 1).
rand(r) == RDiv(2 * r * LU, RngMod) - LU

\* random_vector3: three draws; the state after them is RngAdvance^3(r).
random_vector3(r) ==
    << rand(RngAdvance(r)),
       rand(RngAdvance(RngAdvance(r))),
       rand(RngAdvance(RngAdvance(RngAdvance(r)))) >>

RngAfter3(r) == RngAdvance(RngAdvance(RngAdvance(r)))

\* ------------------------------------------------------------------ Subcube

\* Subcube::from_segment
from_segment(segment, subcube_length) ==
    [ segment          |-> segment,
      subcube_length   |-> subcube_length,
      pos              |-> segment,
      vel              |-> VZero,
      orientation      |-> QIdentity,
      angular_momentum |-> VZero ]

\* new_pos of get_subdivided_subcube, in units of 1/LU:
\* Vector3(x, y, z) / subdivide_count + (1 / subdivide_count) / 2
new_pos(subdivide_count, loc) ==
    LET half == RDiv(RDiv(LU, subdivide_count), 2)
    IN  << RDiv(loc[1] * LU, subdivide_count) + half,
           RDiv(loc[2] * LU, subdivide_count) + half,
           RDiv(loc[3] * LU, subdivide_count) + half >>

\* Subcube::get_subdivided_subcube.  segment_model = T(segment) S(length) T(-0.5)
\* and model = T(pos) S(length) Q(orientation) T(-0.5), applied to new_pos.
get_subdivided_subcube(self, subdivide_count, loc) ==
    LET interpolated_pos == new_pos(subdivide_count, loc)
        centred == VSub(interpolated_pos, <<LU \div 2, LU \div 2, LU \div 2>>)
    IN  [ segment          |-> VAdd(self.segment, VScale(centred, self.subcube_length, LU)),
          subcube_length   |-> RDiv(self.subcube_length, subdivide_count),
          pos              |-> VAdd(self.pos,
                                    VScale(QRotate(self.orientation, centred),
                                           self.subcube_length, LU)),
          vel              |-> self.vel,
          orientation      |-> self.orientation,
          angular_momentum |-> self.angular_momentum ]

\* A hurl that adds to the velocity and the angular momentum the piece has.
hurl_accumulating(self, force, origin, r) ==
    LET v  == VScale(VSub(self.pos, origin), 16, 1)
        j1 == random_vector3(r)
        j2 == random_vector3(RngAfter3(r))
    IN  [ self EXCEPT
            !.vel = VAdd(self.vel, VScale(VAdd(v, VScale(j1, 4, 1)), force, 10)),
            !.angular_momentum =
                VAdd(self.angular_momentum, VScale(VAdd(VScale(v, 2, 1), j2), force, 4)) ]

\* Subcube::hurl with the generator state r; the subcube after the call.
\* The generator is advanced six times (RngAfter3 twice) by the caller.
hurl(self, force, origin, r) ==
    LET v  == VScale(VSub(self.pos, origin), 16, 1)
        j1 == random_vector3(r)
        j2 == random_vector3(RngAfter3(r))
    IN  [ self EXCEPT
            !.vel = VScale(VAdd(v, VScale(j1, 4, 1)), force, 10),
            !.angular_momentum = VScale(VAdd(VScale(v, 2, 1), j2), force, 4) ]

\* A reset that takes the place the piece is in as its place of reference.
reset_at_pos(self) == from_segment(self.pos, self.subcube_length)

\* A reset that restores the pose and keeps the motion.
reset_pose_only(self) == [self EXCEPT !.pos = self.segment, !.orientation = QIdentity]

\* Subcube::reset
reset(self) == from_segment(self.segment, self.subcube_length)

\* A cancel_momentum that stops the translation and leaves the spin.
cancel_velocity_only(self) == [self EXCEPT !.vel = VZero]

\* Subcube::cancel_momentum
cancel_momentum(self) == [self EXCEPT !.vel = VZero, !.angular_momentum = VZero]

\* Subcube::approach_original_arrangement: lerp_amount = 0.1, frac is unused.
approach_original_arrangement(self, frac) ==
    LET target_subcube == from_segment(self.segment, self.subcube_length)
    IN  [ self EXCEPT
            !.pos = VAdd(self.pos, VScale(VSub(target_subcube.pos, self.pos), 1, 10)),
            !.orientation = QNlerp(self.orientation, target_subcube.orientation, 1, 10) ]

\* std::num::Float::powf(0.7, frac) in units of 1/1024, for the time steps the
\* model takes (frac in 1/TU second): 0.7^0, 0.7^(1/60), 0.7^0.5, 0.7^0.75, 0.7^1.
powf_0_7(frac) ==
    CASE frac = 0  -> 1024
      [] frac = 1  -> 1018
      [] frac = 30 -> 857
      [] frac = 45 -> 784
      [] frac = 60 -> 717

\* Subcube::step
Subcube_step(self, frac) ==
    LET q_angular_momentum ==
            <<0>> \o VScale(self.angular_momentum, frac * (QU \div 64), (LU \div 64) * TU)
        d_orientation == QMul(q_angular_momentum, self.orientation)
        m == powf_0_7(frac)
    IN  [ self EXCEPT
            !.pos = VAdd(self.pos, VScale(self.vel, frac, TU)),
            !.orientation = QNormalize(QAdd(self.orientation, d_orientation)),
            !.vel = VScale(self.vel, m, 1024),
            !.angular_momentum = VScale(self.angular_momentum, m, 1024) ]

\* ------------------------------------------------------------------ CubeState

Simulating == [tag |-> "Simulating"]

Resetting == [tag |-> "Resetting"]

\* CubeState::Rearranging(CubeStateRearranging { p, next_state })
Rearranging(p, next_state) == [tag |-> "Rearranging", p |-> p, next_state |-> next_state]

\* ------------------------------------------------------------------ Cube
\* A cube is a record [subcubes, rng, state].  Indices are 1-based: the
\* model's index i is the program's index i - 1.

\* A Cube::new whose first subcube is half the size.
Cube_new_half(seed) ==
    [ subcubes |-> << from_segment(VZero, LU \div 2) >>,
      rng      |-> seed,
      state    |-> Simulating ]

\* Cube::new, with the seed StdRng::new() obtained.
Cube_new(seed) ==
    [ subcubes |-> << from_segment(VZero, LU) >>,
      rng      |-> seed,
      state    |-> Simulating ]

\* A try_on_simulating that runs the callback in every state.
try_on_simulating_unguarded(self, result) == result

\* Cube::try_on_simulating: result is what the callback makes of the cube.
try_on_simulating(self, result) ==
    IF self.state.tag = "Simulating" THEN result ELSE self

RECURSIVE hurl_each(_, _, _, _)
\* `for idx in idxs { subcubes[idx].hurl(force, origin, rng) }`: the cube after
\* hurling the subcubes at the indices idxs, in order, each taking six draws.
hurl_each(self, idxs, force, origin) ==
    IF idxs = <<>> THEN self
    ELSE LET i == Head(idxs)
             hurled == [ self EXCEPT
                           !.subcubes[i] = hurl(self.subcubes[i], force, origin, self.rng),
                           !.rng = RngAfter3(RngAfter3(self.rng)) ]
         IN  hurl_each(hurled, Tail(idxs), force, origin)

\* Cube::try_hurl_all
try_hurl_all(self, force) ==
    try_on_simulating(self,
        hurl_each(self, [i \in 1..Len(self.subcubes) |-> i], force, VZero))

\* Cube::try_rearrange
try_rearrange(self) ==
    try_on_simulating(self,
        [ self EXCEPT
            !.subcubes = [i \in 1..Len(self.subcubes) |-> cancel_momentum(self.subcubes[i])],
            !.state = Rearranging(0, Simulating) ])

\* A try_reset that enters Resetting at once.
try_reset_direct(self) ==
    try_on_simulating(self,
        [ self EXCEPT
            !.subcubes = [i \in 1..Len(self.subcubes) |-> cancel_momentum(self.subcubes[i])],
            !.state = Resetting ])

\* Cube::try_reset
try_reset(self) ==
    try_on_simulating(self,
        [ self EXCEPT
            !.subcubes = [i \in 1..Len(self.subcubes) |-> cancel_momentum(self.subcubes[i])],
            !.state = Rearranging(0, Resetting) ])

\* A cell computation that divides by subdivide_count once for z.
subdivide_loc_flat(i, subdivide_count) ==
    << i % subdivide_count,
       (i \div subdivide_count) % subdivide_count,
       i \div subdivide_count >>

\* The cell (x, y, z) of the i-th appended piece, i in 1..subdivide_count^3 - 1.
subdivide_loc(i, subdivide_count) ==
    << i % subdivide_count,
       (i \div subdivide_count) % subdivide_count,
       (i \div subdivide_count) \div subdivide_count >>

\* Cube::subdivide_subcube: [cube, result], result the indices of the pieces.
subdivide_subcube(self, index, subdivide_count) ==
    LET original == self.subcubes[index]
        altered == [ self.subcubes EXCEPT
                       ![index] = get_subdivided_subcube(original, subdivide_count, <<0, 0, 0>>) ]
        subdivide_count_cubed == subdivide_count * subdivide_count * subdivide_count
        new_subcubes_idx == Len(altered)
        extended == altered \o
            [ i \in 1..(subdivide_count_cubed - 1) |->
                get_subdivided_subcube(original, subdivide_count,
                                       subdivide_loc(i, subdivide_count)) ]
    IN  [ cube   |-> [self EXCEPT !.subcubes = extended],
          result |-> <<index>> \o
                     [ k \in 1..(Len(extended) - new_subcubes_idx) |-> new_subcubes_idx + k ] ]

\* An explode_subcube that also hurls the piece before the target.
explode_subcube_neighbour(self, index, force, subdivide_count) ==
    LET origin == self.subcubes[index].pos
        sub == subdivide_subcube(self, index, subdivide_count)
    IN  hurl_each(sub.cube, sub.result \o (IF index > 1 THEN <<index - 1>> ELSE <<>>),
                  force, origin)

\* Cube::explode_subcube
explode_subcube(self, index, force, subdivide_count) ==
    LET origin == self.subcubes[index].pos
        sub == subdivide_subcube(self, index, subdivide_count)
    IN  hurl_each(sub.cube, sub.result, force, origin)

\* An explode_subcube_if_at_least that leaves a piece of exactly the minimum whole.
explode_subcube_if_above(self, index, force, subdivide_count, min_subcube_length) ==
    IF self.subcubes[index].subcube_length > min_subcube_length
    THEN explode_subcube(self, index, force, subdivide_count)
    ELSE hurl_each(self, <<index>>, force, self.subcubes[index].pos)

\* An explode_subcube_if_at_least that goes through the guard of the commands.
explode_subcube_if_simulating(self, index, force, subdivide_count, min_subcube_length) ==
    try_on_simulating(self,
        IF self.subcubes[index].subcube_length >= min_subcube_length
        THEN explode_subcube(self, index, force, subdivide_count)
        ELSE hurl_each(self, <<index>>, force, self.subcubes[index].pos))

\* Cube::explode_subcube_if_at_least
explode_subcube_if_at_least(self, index, force, subdivide_count, min_subcube_length) ==
    IF self.subcubes[index].subcube_length >= min_subcube_length
    THEN explode_subcube(self, index, force, subdivide_count)
    ELSE hurl_each(self, <<index>>, force, self.subcubes[index].pos)

\* "Go to the next state after 1.5 seconds", in 1/TU second.
RearrangeWindow == (3 * TU) \div 2

\* A window test that leaves the window on reaching its end.
within_window_strict(p) == 0 <= p /\ p < RearrangeWindow

\* `match s.p { 0.0...1.5 => None, _ => ... }`: the range includes both ends.
within_window(p) == 0 <= p /\ p <= RearrangeWindow

\* A Simulating arm that leaves the last piece where it is.
step_simulating_but_last(self, frac) ==
    [ self EXCEPT
        !.subcubes = [ i \in 1..Len(self.subcubes) |->
                         IF i < Len(self.subcubes) THEN Subcube_step(self.subcubes[i], frac)
                         ELSE self.subcubes[i] ] ]

\* Cube::step, the Simulating arm.
step_simulating(self, frac) ==
    [ self EXCEPT
        !.subcubes = [i \in 1..Len(self.subcubes) |-> Subcube_step(self.subcubes[i], frac)] ]

\* A Resetting arm that resets each piece where it is and keeps the collection.
step_resetting_keep_pieces(self, frac) ==
    [ self EXCEPT
        !.subcubes = [i \in 1..Len(self.subcubes) |-> reset(self.subcubes[i])],
        !.state = Simulating ]

\* A Resetting arm that moves the pieces home and makes no transition.
step_resetting_approach(self, frac) ==
    [ self EXCEPT
        !.subcubes = [ i \in 1..Len(self.subcubes) |->
                         approach_original_arrangement(self.subcubes[i], frac) ] ]

\* A Resetting arm that drops every piece and leaves the collection empty.
step_resetting_empty(self, frac) ==
    [ self EXCEPT !.subcubes = <<>>, !.state = Simulating ]

\* Cube::step, the Resetting arm (frac is not used).
step_resetting(self, frac) ==
    [ self EXCEPT
        !.subcubes = << from_segment(VZero, LU) >>,
        !.state = Simulating ]

\* A Rearranging arm that also integrates the motion of the pieces.
step_rearranging_integrating(self, frac) ==
    The({ IF within_window(self.state.p + frac)
          THEN [ self EXCEPT
                   !.subcubes = approached,
                   !.state = Rearranging(self.state.p + frac, self.state.next_state) ]
          ELSE [ self EXCEPT
                   !.subcubes = [i \in 1..Len(approached) |-> reset(approached[i])],
                   !.state = self.state.next_state ] :
          approached \in { [ i \in 1..Len(self.subcubes) |->
                               Subcube_step(approach_original_arrangement(self.subcubes[i], frac),
                                            frac) ] } })

\* Cube::step, the Rearranging arm.
step_rearranging(self, frac) ==
    The({ IF within_window(self.state.p + frac)
          THEN [ self EXCEPT
                   !.subcubes = approached,
                   !.state = Rearranging(self.state.p + frac, self.state.next_state) ]
          ELSE [ self EXCEPT
                   !.subcubes = [i \in 1..Len(approached) |-> reset(approached[i])],
                   !.state = self.state.next_state ] :
          approached \in { [ i \in 1..Len(self.subcubes) |->
                               approach_original_arrangement(self.subcubes[i], frac) ] } })

\* Cube::step
Cube_step(self, frac) ==
    CASE self.state.tag = "Simulating"  -> step_simulating(self, frac)
      [] self.state.tag = "Resetting"   -> step_resetting(self, frac)
      [] self.state.tag = "Rearranging" -> step_rearranging(self, frac)

\* ------------------------------------------------------------------ picking
\* A ray is [origin, direction]: origin a point in 1/LU, direction a unit
\* vector in 1/QU.  Option<T> is <<>> for None and <<v>> for Some(v).

\* A set_if_smallest that keeps the largest value.
set_if_largest(self, value) ==
    IF self = <<>> THEN <<value>>
    ELSE IF value > self[1] THEN <<value>> ELSE self

\* CompareSmallest::set_if_smallest on an Option of distances.
set_if_smallest(self, value) ==
    IF self = <<>> THEN <<value>>
    ELSE IF value < self[1] THEN <<value>> ELSE self

\* A set_if_smallest that compares the wrong way round.
set_if_largest_by_dist(self, value) ==
    IF self = <<>> THEN <<value>>
    ELSE IF value[2] > self[1][2] THEN <<value>> ELSE self

\* The same on an Option of <<index, distance>>, ordered by the distance alone
\* (the PartialOrd of (usize, &Subcube, f32) in get_subcube_from_ray).
set_if_smallest_by_dist(self, value) ==
    IF self = <<>> THEN <<value>>
    ELSE IF value[2] < self[1][2] THEN <<value>> ELSE self

\* Quaternion::invert: conjugate / magnitude2
QInvert(q) ==
    The({ << RDiv(q[1] * QU * QU, m2), RDiv(-q[2] * QU * QU, m2),
             RDiv(-q[3] * QU * QU, m2), RDiv(-q[4] * QU * QU, m2) >> :
          m2 \in {QMagnitude2(q)} })

\* a * b / c for any c # 0, rounded to the nearest integer.
MulDiv(a, b, c) == IF c > 0 THEN RDiv(a * b, c) ELSE RDiv(-(a * b), -c)

\* Intersect::intersection(&(plane, ray)) for the plane with normal
\* sign * e_axis and d = 0.5, then the bounds test and the distance of
\* intersects_with_unit_cube: <<distance>> in 1/LU, or <<>>.
\*   t = -(p.d + origin . n) / (direction . n);  None if t < 0
\* A zero denominator makes t infinite or NaN, and no point within the bounds.
plane_hit(origin, direction, axis, sign) ==
    LET denom == sign * direction[axis]
        numer == -((LU \div 2) + sign * origin[axis])
    IN  IF denom = 0 \/ (numer < 0 /\ denom > 0) \/ (numer > 0 /\ denom < 0) THEN <<>>
        ELSE The({ IF \A b \in 1..3 : -(LU \div 2) <= point[b] /\ point[b] <= LU \div 2
                   THEN << ISqrt((point[1] - origin[1]) * (point[1] - origin[1])
                               + (point[2] - origin[2]) * (point[2] - origin[2])
                               + (point[3] - origin[3]) * (point[3] - origin[3])) >>
                   ELSE <<>> :
                   point \in { [ b \in 1..3 |->
                                   origin[b] + MulDiv(direction[b], numer, denom) ] } })

\* The six PLANES, as <<axis, sign>>, in the order of the array.
PLANES == << <<1, 1>>, <<1, -1>>, <<2, 1>>, <<2, -1>>, <<3, 1>>, <<3, -1>> >>

RECURSIVE closest_over_planes(_, _, _, _)
closest_over_planes(origin, direction, k, closest) ==
    IF k > Len(PLANES) THEN closest
    ELSE The({ closest_over_planes(origin, direction, k + 1,
                   IF hit = <<>> THEN closest ELSE set_if_smallest(closest, hit[1])) :
               hit \in { plane_hit(origin, direction, PLANES[k][1], PLANES[k][2]) } })

\* intersects_with_unit_cube
intersects_with_unit_cube(origin, direction) ==
    closest_over_planes(origin, direction, 1, <<>>)

\* The ray relative to a non-rotated unit cube: <<origin, direction>>.
new_ray(subcube, ray) ==
    The({ << QRotate(q, VScale(VSub(ray.origin, subcube.pos), LU, subcube.subcube_length)),
             QRotate(q, ray.direction) >> :
          q \in {QInvert(subcube.orientation)} })

RECURSIVE closest_subcube_from(_, _, _, _)
\* The loop over self.subcubes.iter().enumerate(), from index on.
closest_subcube_from(self, ray, index, closest_subcube) ==
    IF index > Len(self.subcubes) THEN closest_subcube
    ELSE The({ closest_subcube_from(self, ray, index + 1,
                   IF hit = <<>> THEN closest_subcube
                   ELSE set_if_smallest_by_dist(closest_subcube,
                            << index, RDiv(hit[1] * self.subcubes[index].subcube_length, LU) >>)) :
               hit \in { The({ intersects_with_unit_cube(r[1], r[2]) :
                               r \in {new_ray(self.subcubes[index], ray)} }) } })

\* A query that answers with the number of subcubes up to and including the
\* closest one, which is its index plus one.
get_subcube_from_ray_count(self, ray) ==
    The({ IF closest = <<>> THEN <<>> ELSE <<closest[1][1] + 1>> :
          closest \in {closest_subcube_from(self, ray, 1, <<>>)} })

\* Cube::get_subcube_from_ray: <<index>> or <<>>.
get_subcube_from_ray(self, ray) ==
    The({ IF closest = <<>> THEN <<>> ELSE <<closest[1][1]>> :
          closest \in {closest_subcube_from(self, ray, 1, <<>>)} })

\* ------------------------------------------------------------------ panics
\* The outcome of a call that may panic: the cube as the call leaves it, and
\* whether the call panicked.

Ok(self) == [cube |-> self, panicked |-> FALSE]

Panic(self) == [cube |-> self, panicked |-> TRUE]

\* An explode_subcube that makes do with what it is given: an index past the
\* end stands for the last piece, a subdivide_count of 0 for 1.
explode_subcube_call_lenient(self, index, force, subdivide_count) ==
    Ok(explode_subcube(self,
                       IF index \in 1..Len(self.subcubes) THEN index ELSE Len(self.subcubes),
                       force,
                       IF subdivide_count > 0 THEN subdivide_count ELSE 1))

\* Cube::explode_subcube with its panics: self.subcubes[index] is read first
\* (the bounds check of Vec), then subdivide_subcube asserts subdivide_count > 0
\* before it changes anything.
explode_subcube_call(self, index, force, subdivide_count) ==
    IF index \notin 1..Len(self.subcubes) THEN Panic(self)
    ELSE IF ~(subdivide_count > 0) THEN Panic(self)
    ELSE Ok(explode_subcube(self, index, force, subdivide_count))

\* An explode_subcube_if_at_least that subdivides whatever the length, with
\* the panics of explode_subcube.
explode_subcube_always_call(self, index, force, subdivide_count, min_subcube_length) ==
    explode_subcube_call(self, index, force, subdivide_count)

\* Cube::explode_subcube_if_at_least with its panics: the test reads
\* self.subcubes[index] first.
explode_subcube_if_at_least_call(self, index, force, subdivide_count, min_subcube_length) ==
    IF index \notin 1..Len(self.subcubes) THEN Panic(self)
    ELSE IF self.subcubes[index].subcube_length >= min_subcube_length
    THEN explode_subcube_call(self, index, force, subdivide_count)
    ELSE Ok(hurl_each(self, <<index>>, force, self.subcubes[index].pos))

\* ------------------------------------------------------------------ GameState

\* The force GameState::step passes to try_hurl_all and explode_subcube_if_at_least.
GameForce == 4

\* The subdivide_count GameState::step passes to explode_subcube_if_at_least.
GameSubdivideCount == 2

\* 1.0/16.0 in 1/LU
GameMinLength == LU \div 16

\* GameState::solve_selected_subcube: pointer is <<>> or <<ray>>, the ray
\* the pointer makes under the projection and the view.
solve_selected_subcube(self, pointer) ==
    IF pointer = <<>> THEN <<>> ELSE get_subcube_from_ray(self, pointer[1])

\* The commands of GameState::step: at most one of the three guarded calls.
step_commands(self, input) ==
    IF input.hurl_all THEN try_hurl_all(self, GameForce)
    ELSE IF input.rearrange THEN try_rearrange(self)
    ELSE IF input.reset THEN try_reset(self)
    ELSE self

\* The explosion of GameState::step, with its outcome.
step_explode(self, input, selected_subcube) ==
    IF input.explode_subcube /\ selected_subcube # <<>>
    THEN explode_subcube_if_at_least_call(self, selected_subcube[1], GameForce,
                                          GameSubdivideCount, GameMinLength)
    ELSE Ok(self)

\* A tick that resolves the pointer and explodes before it looks at the
\* command flags.
GameState_step_explode_first(self, input) ==
    The({ The({ The({ [ after_commands   |-> commanded,
                        selected_subcube |-> selected_subcube,
                        after_explode    |-> commanded,
                        panicked         |-> exploded.panicked,
                        cube             |-> Cube_step(commanded, 1) ] :
                      commanded \in {step_commands(exploded.cube, input)} }) :
                exploded \in {step_explode(self, input, selected_subcube)} }) :
          selected_subcube \in {solve_selected_subcube(self, input.pointer)} })

\* GameState::step, as far as the cube goes: the cube after the commands,
\* the picked index, the cube after the explosion, whether the explosion
\* panicked, and the cube after cube.step(1 / steps_per_second), which a
\* panic keeps from running.
GameState_step(self, input) ==
    The({ The({ The({ [ after_commands   |-> commanded,
                        selected_subcube |-> selected_subcube,
                        after_explode    |-> exploded.cube,
                        panicked         |-> exploded.panicked,
                        cube             |-> IF exploded.panicked THEN exploded.cube
                                             ELSE Cube_step(exploded.cube, 1) ] :
                      exploded \in {step_explode(commanded, input, selected_subcube)} }) :
                selected_subcube \in {solve_selected_subcube(commanded, input.pointer)} }) :
          commanded \in {step_commands(self, input)} })

\* ------------------------------------------------------------------ f32 range
\* The fixed point above has no largest number.  F32 values keep the exponent
\* range of f32 and its special values, with a significand of SigBits bits:
\*   [k |-> "num", m, e]  the number m * 2^e, m = 0 or 2^(SigBits-1) <= |m| < 2^SigBits
\*   [k |-> "inf", m, e]  the infinity of the sign of m
\*   [k |-> "nan", m, e]  NaN

\* Bits of significand the model keeps (f32 keeps 24).
SigBits == 24 \div 2

\* Finite f32 values are below 2^F32MaxExp in magnitude.
F32MaxExp == 128

\* The smallest positive f32 is 2^F32MinExp.
F32MinExp == -149

F32Zero == [k |-> "num", m |-> 0, e |-> 0]

F32Inf(sign) == [k |-> "inf", m |-> sign, e |-> 0]

F32NaN == [k |-> "nan", m |-> 0, e |-> 0]

Sign(a) == IF a < 0 THEN -1 ELSE 1

RECURSIVE BitLen(_)
\* The number of bits of a > 0.
BitLen(a) == IF a < 2 THEN 1 ELSE 1 + BitLen(a \div 2)

\* m * 2^e rounded to SigBits bits of significand, infinite at or beyond
\* 2^F32MaxExp, zero below 2^F32MinExp.
F32(m, e) ==
    IF m = 0 THEN F32Zero
    ELSE The({ The({ IF r[2] + SigBits > F32MaxExp THEN F32Inf(Sign(m))
                     ELSE IF r[2] + SigBits - 1 < F32MinExp THEN F32Zero
                     ELSE [k |-> "num", m |-> Sign(m) * r[1], e |-> r[2]] :
                     r \in { IF sh <= 0 THEN << Abs(m) * 2^(-sh), e + sh >>
                             ELSE IF (Abs(m) + 2^(sh - 1)) \div 2^sh = 2^SigBits
                             THEN << 2^(SigBits - 1), e + sh + 1 >>
                             ELSE << (Abs(m) + 2^(sh - 1)) \div 2^sh, e + sh >> } }) :
               sh \in {BitLen(Abs(m)) - SigBits} })

\* An integer as an F32.
F32Int(n) == F32(n, 0)

F32Neg(a) == [a EXCEPT !.m = -a.m]

\* a * b
F32Mul(a, b) ==
    IF a.k = "nan" \/ b.k = "nan" THEN F32NaN
    ELSE IF a.k = "inf" \/ b.k = "inf"
    THEN IF a.m = 0 \/ b.m = 0 THEN F32NaN ELSE F32Inf(Sign(a.m) * Sign(b.m))
    ELSE F32(a.m * b.m, a.e + b.e)

\* a + b, for finite a and b that are not zero, a the one of the larger exponent
F32AddAligned(a, b) ==
    IF a.e - b.e > SigBits + 2 THEN a
    ELSE F32(a.m * 2^(a.e - b.e) + b.m, b.e)

\* a + b
F32Add(a, b) ==
    IF a.k = "nan" \/ b.k = "nan" THEN F32NaN
    ELSE IF a.k = "inf" /\ b.k = "inf" THEN (IF a.m = b.m THEN a ELSE F32NaN)
    ELSE IF a.k = "inf" THEN a
    ELSE IF b.k = "inf" THEN b
    ELSE IF a.m = 0 THEN b
    ELSE IF b.m = 0 THEN a
    ELSE IF a.e >= b.e THEN F32AddAligned(a, b) ELSE F32AddAligned(b, a)

\* 1 / a
F32Recip(a) ==
    IF a.k = "nan" THEN F32NaN
    ELSE IF a.k = "inf" THEN F32Zero
    ELSE IF a.m = 0 THEN F32Inf(1)
    ELSE F32(Sign(a.m) * (2^(2 * SigBits + 1) \div Abs(a.m)), -(2 * SigBits + 1) - a.e)

\* sqrt(a)
F32Sqrt(a) ==
    IF a.k = "nan" \/ a.m < 0 THEN F32NaN
    ELSE IF a.k = "inf" \/ a.m = 0 THEN a
    ELSE IF a.e % 2 = 0 THEN F32(ISqrt(a.m * 2^SigBits), (a.e - SigBits) \div 2)
    ELSE F32(ISqrt(a.m * 2^(SigBits + 1)), (a.e - SigBits - 1) \div 2)

\* a < b for finite a and b
F32Less(a, b) == F32Add(a, F32Neg(b)).m < 0

\* Vectors and quaternions of F32 values.

F32VZero == <<F32Zero, F32Zero, F32Zero>>

F32VAdd(a, b) == <<F32Add(a[1], b[1]), F32Add(a[2], b[2]), F32Add(a[3], b[3])>>

F32VSub(a, b) == F32VAdd(a, <<F32Neg(b[1]), F32Neg(b[2]), F32Neg(b[3])>>)

\* Vector3::mul_s
F32VMulS(v, s) == <<F32Mul(v[1], s), F32Mul(v[2], s), F32Mul(v[3], s)>>

F32QIdentity == <<F32Int(1), F32Zero, F32Zero, F32Zero>>

\* Quaternion::mul_q: the Hamilton product a * b
F32QMul(a, b) ==
    LET m(i, j) == F32Mul(a[i], b[j])
        sum4(w, x, y, z) == F32Add(F32Add(F32Add(w, x), y), z)
    IN  << sum4(m(1, 1), F32Neg(m(2, 2)), F32Neg(m(3, 3)), F32Neg(m(4, 4))),
           sum4(m(1, 2), m(2, 1), m(3, 4), F32Neg(m(4, 3))),
           sum4(m(1, 3), F32Neg(m(2, 4)), m(3, 1), m(4, 2)),
           sum4(m(1, 4), m(2, 3), F32Neg(m(3, 2)), m(4, 1)) >>

F32QAdd(a, b) ==
    <<F32Add(a[1], b[1]), F32Add(a[2], b[2]), F32Add(a[3], b[3]), F32Add(a[4], b[4])>>

\* Quaternion::magnitude2
F32QMagnitude2(q) ==
    F32Add(F32Add(F32Add(F32Mul(q[1], q[1]), F32Mul(q[2], q[2])), F32Mul(q[3], q[3])),
           F32Mul(q[4], q[4]))

\* Quaternion::normalize: self.mul_s(1 / self.magnitude())
F32QNormalize(q) ==
    The({ <<F32Mul(q[1], inv), F32Mul(q[2], inv), F32Mul(q[3], inv), F32Mul(q[4], inv)>> :
          inv \in {F32Recip(F32Sqrt(F32QMagnitude2(q)))} })

\* rng.next_f32() * 2.0 - 1.0 for the generator state r
F32rand(r) ==
    F32Add(F32Mul(F32Mul(F32Int(r), F32Recip(F32Int(RngMod))), F32Int(2)), F32Int(-1))

\* random_vector3
F32random_vector3(r) ==
    << F32rand(RngAdvance(r)),
       F32rand(RngAdvance(RngAdvance(r))),
       F32rand(RngAdvance(RngAdvance(RngAdvance(r)))) >>

\* Subcube::from_segment(Zero::zero(), 1.0)
F32from_segment ==
    [ segment |-> F32VZero, subcube_length |-> F32Int(1), pos |-> F32VZero,
      vel |-> F32VZero, orientation |-> F32QIdentity, angular_momentum |-> F32VZero ]

\* Subcube::hurl
F32hurl(self, force, origin, r) ==
    The({ [ self EXCEPT
              !.vel = F32VMulS(F32VAdd(v, F32VMulS(F32random_vector3(r), F32Int(4))),
                               F32Mul(force, F32Recip(F32Int(10)))),
              !.angular_momentum =
                  F32VMulS(F32VAdd(v, F32VMulS(F32random_vector3(RngAfter3(r)), F32(1, -1))),
                           F32Mul(force, F32(1, -1))) ] :
          v \in {F32VMulS(F32VSub(self.pos, origin), F32Int(16))} })

\* Subcube::step with frac = 1 / steps_per_second
F32Subcube_step(self) ==
    The({ [ self EXCEPT
              !.pos = F32VAdd(self.pos, F32VMulS(self.vel, frac)),
              !.orientation =
                  F32QNormalize(F32QAdd(self.orientation,
                      F32QMul(<<F32Zero>> \o F32VMulS(self.angular_momentum, frac),
                              self.orientation))),
              !.vel = F32VMulS(self.vel, F32(powf_0_7(1), -10)),
              !.angular_momentum = F32VMulS(self.angular_momentum, F32(powf_0_7(1), -10)) ] :
          frac \in {F32Recip(F32Int(TU))} })

\* Cube::new
F32Cube_new(seed) ==
    [subcubes |-> <<F32from_segment>>, rng |-> seed, state |-> Simulating]

RECURSIVE F32hurl_each(_, _, _, _)
F32hurl_each(self, idxs, force, origin) ==
    IF idxs = <<>> THEN self
    ELSE F32hurl_each([ self EXCEPT
                          !.subcubes[Head(idxs)] =
                              F32hurl(self.subcubes[Head(idxs)], force, origin, self.rng),
                          !.rng = RngAfter3(RngAfter3(self.rng)) ],
                      Tail(idxs), force, origin)

\* Cube::try_hurl_all
F32try_hurl_all(self, force) ==
    try_on_simulating(self,
        F32hurl_each(self, [i \in 1..Len(self.subcubes) |-> i], force, F32VZero))

\* Cube::step in state Simulating
F32Cube_step(self) ==
    [ self EXCEPT
        !.subcubes = [i \in 1..Len(self.subcubes) |-> F32Subcube_step(self.subcubes[i])] ]

\* GameState::step with no pointer: try_hurl_all(4.0) if hurl_all is set, then
\* cube.step(frac).  The cube stays in state Simulating.
F32GameState_step(self, hurl_all) ==
    F32Cube_step(IF hurl_all THEN F32try_hurl_all(self, F32Int(GameForce)) ELSE self)

\* ------------------------------------------------------------------ state

VARIABLES
    cube,   \* the Cube: [subcubes, rng, state]
    op,     \* the last call made on the cube, with its arguments
    pre,    \* the cube as it was when that call was made
    calls,  \* the number of calls made so far
    elapsed \* the sum of the frac of the steps taken since the state became
            \* Rearranging, the last call included; 0 when the call was made
            \* in another state

vars == <<cube, op, pre, calls, elapsed>>

\* ------------------------------------------------------------------ inputs

\* Seeds StdRng::new() may obtain.
Seeds == {3, 10}

\* frac arguments of Cube::step, in 1/TU second: positive, as the tick
\* interface requires.  30 + 60 is exactly the 1.5 s window, 60 + 60 exceeds it.
Fracs == {30, 60}

\* The indices a call is made with: the first and the last of the collection.
Indices(self) == {1, Len(self.subcubes)}

\* The pieces of self.subcubes[index] divided into subdivide_count^3 lie on
\* the fixed-point grid, and the collection stays within max_len.
CanSubdivide(self, index, subdivide_count, max_len) ==
    /\ self.subcubes[index].subcube_length % (2 * subdivide_count) = 0
    /\ Len(self.subcubes) + subdivide_count * subdivide_count * subdivide_count - 1 <= max_len

\* ------------------------------------------------------------------ calls

CalledWithin(after, call, max_calls) ==
    /\ calls < max_calls
    /\ cube' = after
    /\ op' = call
    /\ pre' = cube
    /\ calls' = calls + 1
    /\ elapsed' = IF cube.state.tag = "Rearranging"
                  THEN elapsed + (IF call.name = "step" THEN call.frac ELSE 0)
                  ELSE 0

Called(after, call) == CalledWithin(after, call, MaxCalls)

Init ==
    /\ \E seed \in Seeds : cube = Cube_new(seed)
    /\ op = [name |-> "new"]
    /\ pre = cube
    /\ calls = 0
    /\ elapsed = 0

TryHurlAll ==
    Called(try_hurl_all(cube, GameForce), [name |-> "try_hurl_all", force |-> GameForce])

TryRearrange ==
    Called(try_rearrange(cube), [name |-> "try_rearrange"])

TryReset ==
    Called(try_reset(cube), [name |-> "try_reset"])

ExplodeSubcubeIfAtLeast ==
    \E index \in Indices(cube) :
        LET subdivide_count == 2
            min_subcube_length == LU \div 2
        IN  /\ \/ cube.subcubes[index].subcube_length < min_subcube_length
               \/ CanSubdivide(cube, index, subdivide_count, MaxLen)
            /\ Called(explode_subcube_if_at_least(cube, index, GameForce, subdivide_count,
                                                  min_subcube_length),
                      [ name |-> "explode_subcube_if_at_least", index |-> index,
                        force |-> GameForce, subdivide_count |-> subdivide_count,
                        min_subcube_length |-> min_subcube_length ])

\* subdivide_count arguments
Counts == {1, 2, 3}

ExplodeSubcube ==
    \E index \in Indices(cube), subdivide_count \in Counts :
        /\ CanSubdivide(cube, index, subdivide_count, MaxPieces)
        /\ Called(explode_subcube(cube, index, GameForce, subdivide_count),
                  [ name |-> "explode_subcube", index |-> index, force |-> GameForce,
                    subdivide_count |-> subdivide_count ])

Step ==
    \E frac \in Fracs :
        Called(Cube_step(cube, frac), [name |-> "step", frac |-> frac])

Next ==
    \/ TryHurlAll
    \/ TryRearrange
    \/ TryReset
    \/ ExplodeSubcubeIfAtLeast
    \/ Step

Spec == Init /\ [][Next]_vars

\* A panic ends the program.
Aborted == "panicked" \in DOMAIN op /\ op.panicked

\* ------------------------------------------------------------------ game

\* Pointer rays: from outside the cube along its main diagonal towards the
\* corner (-0.5, -0.5, -0.5), and from outside along the x axis through the centre.
DiagonalRay == [origin |-> <<-2 * LU, -2 * LU, -2 * LU>>, direction |-> <<148, 148, 148>>]

AxisRay == [origin |-> <<-3 * LU, 0, 0>>, direction |-> <<QU, 0, 0>>]

NoInput ==
    [ hurl_all |-> FALSE, explode_subcube |-> FALSE, rearrange |-> FALSE,
      reset |-> FALSE, pointer |-> <<>> ]

\* The inputs of a tick.
GameInputs ==
    { NoInput,
      [NoInput EXCEPT !.explode_subcube = TRUE, !.pointer = <<DiagonalRay>>],
      [NoInput EXCEPT !.explode_subcube = TRUE, !.pointer = <<AxisRay>>, !.rearrange = TRUE],
      [NoInput EXCEPT !.explode_subcube = TRUE, !.pointer = <<AxisRay>>, !.reset = TRUE] }

\* One tick of the game loop.
GameTick ==
    /\ calls < MaxTicks
    /\ ~Aborted
    /\ \E input \in GameInputs :
           \E tick \in {GameState_step(cube, input)} :
               /\ cube' = tick.cube
               /\ op' = [ name |-> "GameState::step", input |-> input,
                          selected_subcube |-> tick.selected_subcube,
                          after_commands |-> tick.after_commands,
                          after_explode |-> tick.after_explode,
                          panicked |-> tick.panicked ]
               /\ pre' = cube
               /\ calls' = calls + 1
               /\ elapsed' = IF cube.state.tag = "Rearranging" THEN elapsed + 1 ELSE 0

SpecGame == Init /\ [][GameTick]_vars

\* Explosions with the subdivision count as an argument, and steps between them.
NextExplode ==
    \/ ExplodeSubcube
    \/ Step

SpecExplode == Init /\ [][NextExplode]_vars

\* try_reset, counted against MaxResetCalls.
ResetTryReset ==
    CalledWithin(try_reset(cube), [name |-> "try_reset"], MaxResetCalls)

\* explode_subcube_if_at_least as the game calls it, counted against MaxResetCalls.
ResetExplode ==
    \E index \in Indices(cube) :
        /\ \/ cube.subcubes[index].subcube_length < LU \div 2
           \/ CanSubdivide(cube, index, 2, MaxLen)
        /\ CalledWithin(explode_subcube_if_at_least(cube, index, GameForce, 2, LU \div 2),
                        [ name |-> "explode_subcube_if_at_least", index |-> index,
                          force |-> GameForce, subdivide_count |-> 2,
                          min_subcube_length |-> LU \div 2 ],
                        MaxResetCalls)

\* A step taken while the state is Simulating, counted against MaxResetCalls.
ResetStepSimulating ==
    \E frac \in Fracs :
        /\ cube.state.tag = "Simulating"
        /\ CalledWithin(Cube_step(cube, frac), [name |-> "step", frac |-> frac],
                        MaxResetCalls)

\* A step taken while the state is Rearranging or Resetting.  The game loop
\* steps the cube on every tick, so these steps are not counted as calls.
StepTransient ==
    \E frac \in Fracs :
        /\ cube.state.tag # "Simulating"
        /\ cube' = Cube_step(cube, frac)
        /\ op' = [name |-> "step", frac |-> frac]
        /\ pre' = cube
        /\ elapsed' = IF cube.state.tag = "Rearranging" THEN elapsed + frac ELSE 0
        /\ UNCHANGED calls

\* Resets and explosions at any time, with the steps the game loop never
\* stops taking.
NextReset ==
    \/ ResetTryReset
    \/ ResetExplode
    \/ ResetStepSimulating
    \/ StepTransient

SpecReset == Init /\ [][NextReset]_vars /\ WF_vars(StepTransient)

\* ------------------------------------------------------------------ picking calls

\* The local hit distance of each piece, <<>> where the ray has no hit: the
\* values intersects_with_unit_cube returns within get_subcube_from_ray.
hit_distances(self, ray) ==
    [ index \in 1..Len(self.subcubes) |->
        The({ intersects_with_unit_cube(r[1], r[2]) :
              r \in {new_ray(self.subcubes[index], ray)} }) ]

\* ------------------------------------------------------------------ panics of the query

\* assert!(dist >= 0.0) in get_subcube_from_ray: the query panics if a hit
\* has a negative distance.
get_subcube_from_ray_panics(self, ray) ==
    \E index \in 1..Len(self.subcubes) :
        \E hit \in {hit_distances(self, ray)[index]} :
            hit # <<>> /\ ~(hit[1] >= 0)

\* The distance from which the rays through the centre of a piece start.
CentreDist == 3 * LU

Axis(axis, sign) == [b \in 1..3 |-> IF b = axis THEN sign * QU ELSE 0]

\* The ray towards the centre of a piece along the normal sign * e_axis of
\* one of its faces, starting outside the piece.
CentreRay(subcube, axis, sign) ==
    The({ [ origin |-> VSub(subcube.pos, VScale(direction, CentreDist, QU)),
            direction |-> direction ] :
          direction \in {QRotate(subcube.orientation, Axis(axis, sign))} })

CentreRays(subcube) == { CentreRay(subcube, axis, sign) : axis \in 1..3, sign \in {1, -1} }

\* A ray from the other side of the cube, parallel to AxisRay and an eighth
\* of a unit off the centre line in y and in z.
OppositeRay == [origin |-> <<3 * LU, LU \div 8, LU \div 8>>, direction |-> <<-QU, 0, 0>>]

\* A ray parallel to AxisRay that passes two units above the centre.
MissRay == [origin |-> <<-3 * LU, 2 * LU, 0>>, direction |-> <<QU, 0, 0>>]

\* AxisRay turned round: the cube lies behind its origin.
AwayRay == [origin |-> <<-3 * LU, 0, 0>>, direction |-> <<-QU, 0, 0>>]

\* The rays a picking query is made with.
PickRays(self) ==
    {AxisRay, OppositeRay, DiagonalRay, MissRay, AwayRay} \cup CentreRays(self.subcubes[1])

\* Cube::get_subcube_from_ray: a query, which leaves the cube as it is.  As in
\* the game tick, one query is made between two calls that change the cube.
Pick ==
    \E ray \in PickRays(cube) :
        /\ op.name # "get_subcube_from_ray"
        /\ cube' = cube
        /\ op' = [ name |-> "get_subcube_from_ray", ray |-> ray,
                   hits |-> hit_distances(cube, ray),
                   result |-> get_subcube_from_ray(cube, ray) ]
        /\ pre' = cube
        /\ UNCHANGED <<calls, elapsed>>

PickHurlAll ==
    CalledWithin(try_hurl_all(cube, GameForce),
                 [name |-> "try_hurl_all", force |-> GameForce], MaxPickCalls)

PickExplode ==
    \E index \in Indices(cube) :
        /\ CanSubdivide(cube, index, GameSubdivideCount, MaxLen)
        /\ CalledWithin(explode_subcube(cube, index, GameForce, GameSubdivideCount),
                        [ name |-> "explode_subcube", index |-> index, force |-> GameForce,
                          subdivide_count |-> GameSubdivideCount ],
                        MaxPickCalls)

PickStep ==
    \E frac \in Fracs :
        CalledWithin(Cube_step(cube, frac), [name |-> "step", frac |-> frac], MaxPickCalls)

\* Picking queries on the cubes a few calls produce.
NextPick ==
    \/ Pick
    \/ PickHurlAll
    \/ PickExplode
    \/ PickStep

SpecPick == Init /\ [][NextPick]_vars

\* ------------------------------------------------------------------ the window, tick by tick
\* Game ticks through the whole 1.5 s of Rearranging and the tick of Resetting
\* that may follow.  Ticks with an input are counted against
\* MaxWindowCommands; the game loop never stops ticking, so the ticks
\* without input taken in a transient state are not counted.

\* Inputs of a counted tick: every command flag at once; rearrange and reset
\* with a request to explode the piece under OppositeRay; reset with a
\* request to explode the piece under AxisRay; the pointer alone.
WindowInputs ==
    { [NoInput EXCEPT !.hurl_all = TRUE, !.rearrange = TRUE, !.reset = TRUE],
      [NoInput EXCEPT !.rearrange = TRUE, !.reset = TRUE, !.explode_subcube = TRUE,
                      !.pointer = <<OppositeRay>>],
      [NoInput EXCEPT !.reset = TRUE, !.explode_subcube = TRUE, !.pointer = <<AxisRay>>],
      [NoInput EXCEPT !.pointer = <<OppositeRay>>] }

\* One tick with the given input; counted is the number of counted ticks after it.
WindowTicked(input, counted) ==
    /\ ~Aborted
    /\ \E tick \in {GameState_step(cube, input)} :
        /\ cube' = tick.cube
        /\ op' = [ name |-> "GameState::step", input |-> input,
                   selected_subcube |-> tick.selected_subcube,
                   after_commands |-> tick.after_commands,
                   after_explode |-> tick.after_explode,
                   panicked |-> tick.panicked ]
        /\ pre' = cube
        /\ calls' = counted
        /\ elapsed' = IF cube.state.tag = "Rearranging" THEN elapsed + 1 ELSE 0

WindowCommand ==
    /\ calls < MaxWindowCommands
    /\ \E input \in WindowInputs : WindowTicked(input, calls + 1)

WindowIdle ==
    /\ cube.state.tag # "Simulating"
    /\ WindowTicked(NoInput, calls)

NextWindow ==
    \/ WindowCommand
    \/ WindowIdle

SpecWindow == Init /\ [][NextWindow]_vars /\ WF_vars(NextWindow)

\* ------------------------------------------------------------------ calls that may panic

\* A call with an outcome, counted against MaxPickCalls.
CalledWithOutcome(outcome, call) ==
    /\ ~Aborted
    /\ CalledWithin(outcome.cube, [call EXCEPT !.panicked = outcome.panicked], MaxPickCalls)

\* subdivide_count arguments, 0 among them.
AbortCounts == {0, 1, 2}

\* index arguments: the first piece, the last, and one past the end.
AbortIndices(self) == {1, Len(self.subcubes), Len(self.subcubes) + 1}

AbortExplode ==
    \E index \in AbortIndices(cube), subdivide_count \in AbortCounts :
        /\ (index <= Len(cube.subcubes) /\ subdivide_count > 0) =>
               CanSubdivide(cube, index, subdivide_count, MaxLen)
        /\ CalledWithOutcome(explode_subcube_call(cube, index, GameForce, subdivide_count),
                             [ name |-> "explode_subcube", index |-> index,
                               force |-> GameForce, subdivide_count |-> subdivide_count,
                               panicked |-> FALSE ])

AbortExplodeIfAtLeast ==
    \E index \in AbortIndices(cube), subdivide_count \in {0, GameSubdivideCount} :
        /\ (index <= Len(cube.subcubes) /\ subdivide_count > 0
              /\ cube.subcubes[index].subcube_length >= LU \div 2) =>
               CanSubdivide(cube, index, subdivide_count, MaxLen)
        /\ CalledWithOutcome(explode_subcube_if_at_least_call(cube, index, GameForce,
                                                              subdivide_count, LU \div 2),
                             [ name |-> "explode_subcube_if_at_least", index |-> index,
                               force |-> GameForce, subdivide_count |-> subdivide_count,
                               min_subcube_length |-> LU \div 2, panicked |-> FALSE ])

AbortStep ==
    \E frac \in Fracs :
        CalledWithOutcome(Ok(Cube_step(cube, frac)),
                          [name |-> "step", frac |-> frac, panicked |-> FALSE])

AbortPick ==
    \E ray \in {AxisRay, OppositeRay, AwayRay} :
        /\ ~Aborted
        /\ op.name # "get_subcube_from_ray"
        /\ cube' = cube
        /\ op' = [ name |-> "get_subcube_from_ray", ray |-> ray,
                   hits |-> hit_distances(cube, ray),
                   result |-> get_subcube_from_ray(cube, ray),
                   panicked |-> get_subcube_from_ray_panics(cube, ray) ]
        /\ pre' = cube
        /\ UNCHANGED <<calls, elapsed>>

\* Calls with valid and with invalid arguments.
NextAbort ==
    \/ AbortExplode
    \/ AbortExplodeIfAtLeast
    \/ AbortStep
    \/ AbortPick

SpecAbort == Init /\ [][NextAbort]_vars

\* ------------------------------------------------------------------ hurling again and again
\* The space bar pressed on every other tick: hurl_all is set on the ticks on
\* which the key is newly down.  The cube holds F32 values.

MashInit ==
    /\ \E seed \in Seeds : cube = F32Cube_new(seed)
    /\ op = [name |-> "new"]
    /\ pre = cube
    /\ calls = 0
    /\ elapsed = 0

MashTicked(hurl_all) ==
    /\ calls < MaxMashTicks
    /\ cube' = F32GameState_step(cube, hurl_all)
    /\ op' = [name |-> "GameState::step", hurl_all |-> hurl_all]
    /\ pre' = cube
    /\ calls' = calls + 1
    /\ elapsed' = 0

\* A tick on which the key is newly down.
MashPress == calls % 2 = 0 /\ MashTicked(TRUE)

\* A tick on which the key is up.
MashRelease == calls % 2 = 1 /\ MashTicked(FALSE)

NextMash ==
    \/ MashPress
    \/ MashRelease

SpecMash == MashInit /\ [][NextMash]_vars

\* ------------------------------------------------------------------ claims

InTransient(self) == self.state.tag \in {"Rearranging", "Resetting"}

Guarded == {"try_hurl_all", "try_rearrange", "try_reset"}

\* C1: whenever the state is Rearranging or Resetting, try_hurl_all,
\* try_rearrange and try_reset change nothing: the state (with the elapsed
\* counter and the stored next state) and every field of every subcube are as
\* before, and so is the length of the collection.
C1_GuardedNoOp ==
    (op.name \in Guarded /\ InTransient(pre)) =>
        /\ cube.state = pre.state
        /\ Len(cube.subcubes) = Len(pre.subcubes)
        /\ \A i \in 1..Len(pre.subcubes) : cube.subcubes[i] = pre.subcubes[i]

\* try_hurl_all was called part way through a Rearranging window on several pieces.
C1_Witness ==
    /\ op.name = "try_hurl_all"
    /\ pre.state.tag = "Rearranging"
    /\ pre.state.p > 0
    /\ Len(pre.subcubes) > 1

\* C3: a step in Rearranging after which the cumulative elapsed time is still
\* at most 1.5 s leaves the state Rearranging with the same stored next state.
C3_StaysWithinWindow ==
    (op.name = "step" /\ pre.state.tag = "Rearranging" /\ elapsed <= RearrangeWindow) =>
        /\ cube.state.tag = "Rearranging"
        /\ cube.state.next_state = pre.state.next_state

\* A step brought the cumulative elapsed time to exactly 1.5 s.
C3_Witness ==
    /\ op.name = "step"
    /\ pre.state.tag = "Rearranging"
    /\ elapsed = RearrangeWindow

\* C4: the step that pushes the cumulative elapsed time above 1.5 s installs
\* the stored next state and leaves every subcube at pos = segment, identity
\* orientation, zero velocity and zero angular momentum, with segment, size
\* and collection length unchanged.
C4_TimeoutResets ==
    (op.name = "step" /\ pre.state.tag = "Rearranging" /\ elapsed > RearrangeWindow) =>
        /\ cube.state = pre.state.next_state
        /\ cube.state \in {Simulating, Resetting}
        /\ Len(cube.subcubes) = Len(pre.subcubes)
        /\ \A i \in 1..Len(pre.subcubes) :
              /\ cube.subcubes[i].segment = pre.subcubes[i].segment
              /\ cube.subcubes[i].subcube_length = pre.subcubes[i].subcube_length
              /\ cube.subcubes[i].pos = pre.subcubes[i].segment
              /\ cube.subcubes[i].orientation = <<QU, 0, 0, 0>>
              /\ cube.subcubes[i].vel = <<0, 0, 0>>
              /\ cube.subcubes[i].angular_momentum = <<0, 0, 0>>

\* The window of a reset timed out on pieces an explode had set in motion
\* during the window.
C4_Witness ==
    /\ op.name = "step"
    /\ pre.state.tag = "Rearranging"
    /\ elapsed > RearrangeWindow
    /\ cube.state = Resetting
    /\ Len(pre.subcubes) > 1
    /\ \E i \in 1..Len(pre.subcubes) : pre.subcubes[i].vel # <<0, 0, 0>>

\* C8: explode_subcube_if_at_least subdivides, as explode_subcube does,
\* exactly when the target's size is at least min_subcube_length; below it
\* the collection keeps its length, every subcube keeps segment, size, pos
\* and orientation, and only the target's velocity and angular momentum may
\* change.
C8_ExplodeIfAtLeast ==
    (op.name = "explode_subcube_if_at_least") =>
        LET n == op.subdivide_count
        IN  IF pre.subcubes[op.index].subcube_length >= op.min_subcube_length
            THEN /\ Len(cube.subcubes) = Len(pre.subcubes) + n * n * n - 1
                 /\ cube.subcubes[op.index].subcube_length * n
                        = pre.subcubes[op.index].subcube_length
                 /\ cube = explode_subcube(pre, op.index, op.force, n)
            ELSE /\ Len(cube.subcubes) = Len(pre.subcubes)
                 /\ \A i \in 1..Len(pre.subcubes) :
                       /\ cube.subcubes[i].segment = pre.subcubes[i].segment
                       /\ cube.subcubes[i].subcube_length = pre.subcubes[i].subcube_length
                       /\ cube.subcubes[i].pos = pre.subcubes[i].pos
                       /\ cube.subcubes[i].orientation = pre.subcubes[i].orientation
                       /\ i # op.index => cube.subcubes[i] = pre.subcubes[i]

\* The call was made on a moved piece of exactly the minimum size, next to others.
C8_Witness ==
    /\ op.name = "explode_subcube_if_at_least"
    /\ pre.subcubes[op.index].subcube_length = op.min_subcube_length
    /\ Len(pre.subcubes) > 1
    /\ pre.subcubes[op.index].pos # pre.subcubes[op.index].segment

\* The call was made on a piece below the minimum size and set it in motion.
C8_WitnessBelow ==
    /\ op.name = "explode_subcube_if_at_least"
    /\ pre.subcubes[op.index].subcube_length < op.min_subcube_length
    /\ cube.subcubes[op.index].vel # pre.subcubes[op.index].vel

\* C10: Cube::new() yields state Simulating and exactly one subcube of size 1
\* with segment = pos = origin, identity orientation and no motion.
C10_NewCube ==
    (op.name = "new") =>
        /\ cube.state = [tag |-> "Simulating"]
        /\ cube.subcubes = << [ segment          |-> <<0, 0, 0>>,
                                subcube_length   |-> LU,
                                pos              |-> <<0, 0, 0>>,
                                vel              |-> <<0, 0, 0>>,
                                orientation      |-> <<QU, 0, 0, 0>>,
                                angular_momentum |-> <<0, 0, 0>> ] >>

\* The cube as constructed, before any call.
C10_Witness == op.name = "new" /\ calls = 0

\* The pieces an explosion of pre.subcubes[op.index] into n^3 made, in the
\* order k = 0..n^3-1: the one at op.index, then the appended ones.
PieceAt(k) == IF k = 0 THEN cube.subcubes[op.index] ELSE cube.subcubes[Len(pre.subcubes) + k]

\* The cell of the k-th piece.
CellOf(k, n) == << k % n, (k \div n) % n, k \div (n * n) >>

\* C6: explode_subcube with a valid index and n >= 1 lengthens the
\* collection by exactly n^3 - 1, appending at the end: the entry at index
\* becomes the (0,0,0) piece, and every other entry that existed stays at its
\* index with every field unchanged.
C6_ExplodeAppends ==
    (op.name = "explode_subcube") =>
        LET n == op.subdivide_count
            parent == pre.subcubes[op.index]
            first == cube.subcubes[op.index]
        IN  /\ Len(cube.subcubes) = Len(pre.subcubes) + n * n * n - 1
            /\ \A j \in 1..Len(pre.subcubes) :
                  j # op.index => cube.subcubes[j] = pre.subcubes[j]
            /\ first.subcube_length * n = parent.subcube_length
            /\ \A a \in 1..3 :
                  2 * n * (first.segment[a] - parent.segment[a])
                     = parent.subcube_length * (1 - n)

\* A piece in the middle of a collection of moving pieces was exploded in eight.
C6_Witness ==
    /\ op.name = "explode_subcube"
    /\ op.subdivide_count = 2
    /\ Len(pre.subcubes) > 1
    /\ Len(cube.subcubes) = Len(pre.subcubes) + 7
    /\ \E j \in 1..Len(pre.subcubes) :
          j # op.index /\ pre.subcubes[j].vel # <<0, 0, 0>>
                      /\ pre.subcubes[j].pos # pre.subcubes[j].segment

ResetCalledAgain ==
    /\ op.name = "try_reset"
    /\ pre.state = [tag |-> "Rearranging", p |-> 0, next_state |-> [tag |-> "Resetting"]]

\* One subcube of size 1 at rest at the origin, in state Simulating.
Collapsed ==
    /\ cube.state = [tag |-> "Simulating"]
    /\ cube.subcubes = << [ segment          |-> <<0, 0, 0>>,
                            subcube_length   |-> LU,
                            pos              |-> <<0, 0, 0>>,
                            vel              |-> <<0, 0, 0>>,
                            orientation      |-> <<QU, 0, 0, 0>>,
                            angular_momentum |-> <<0, 0, 0>> ] >>

\* C5: a second try_reset made before any step changes nothing, the state
\* staying Rearranging with elapsed 0 and next Resetting; and with steps of
\* positive frac taken from then on, the cube comes to state Simulating with
\* exactly one subcube of size 1 at rest at the origin.
C5_ResetTwice ==
    /\ [](ResetCalledAgain => cube = pre)
    /\ ResetCalledAgain ~> Collapsed

\* The second try_reset was made on a cube in several pieces.
C5_Witness ==
    /\ ResetCalledAgain
    /\ Len(pre.subcubes) > 1
    /\ \E i \in 1..Len(pre.subcubes) : pre.subcubes[i].pos # pre.subcubes[i].segment

\* The explosion stage of a tick ran with the cube in a transient state.
ExplodeRequestedInTransient ==
    /\ op.name = "GameState::step"
    /\ op.input.explode_subcube
    /\ op.selected_subcube # <<>>
    /\ InTransient(op.after_commands)

\* C2: a request to explode a piece made while the cube is Rearranging or
\* Resetting is ignored: the explosion stage leaves the collection as it was.
C2_ExplodeIgnoredInTransient ==
    ExplodeRequestedInTransient => op.after_explode.subcubes = op.after_commands.subcubes

SubcubeLengths(self) == { self.subcubes[i].subcube_length : i \in 1..Len(self.subcubes) }

\* C9 as stated: with minimum m = 1/16 the game never holds a piece smaller
\* than m.
C9_NoSmallerThanMin == \A l \in SubcubeLengths(cube) : l >= GameMinLength

\* C9: with minimum m = 1/16 and n = 2 the game never holds a piece smaller
\* than m / n: a piece of exactly m is still subdivided, a smaller one never.
C9_NoSmallerThanMinOverN ==
    \A l \in SubcubeLengths(cube) : l * GameSubdivideCount >= GameMinLength

\* A piece of m / n was picked for explosion, and was hurled without subdivision.
C9_Witness ==
    /\ op.name = "GameState::step"
    /\ op.input.explode_subcube
    /\ op.selected_subcube # <<>>
    /\ op.after_commands.subcubes[op.selected_subcube[1]].subcube_length
           * GameSubdivideCount = GameMinLength
    /\ Len(op.after_explode.subcubes) = Len(op.after_commands.subcubes)
    /\ op.after_explode # op.after_commands

\* The pose, the reference geometry and the length of every piece are as before the call.
PosesKept ==
    /\ Len(cube.subcubes) = Len(pre.subcubes)
    /\ \A i \in 1..Len(pre.subcubes) :
           /\ cube.subcubes[i].pos = pre.subcubes[i].pos
           /\ cube.subcubes[i].orientation = pre.subcubes[i].orientation
           /\ cube.subcubes[i].segment = pre.subcubes[i].segment
           /\ cube.subcubes[i].subcube_length = pre.subcubes[i].subcube_length

AllAtRest(self) ==
    \A i \in 1..Len(self.subcubes) :
        self.subcubes[i].vel = VZero /\ self.subcubes[i].angular_momentum = VZero

\* C11: from state Simulating, try_rearrange zeroes every subcube's velocity
\* and angular momentum and sets the state to Rearranging with elapsed 0 and
\* next Simulating; try_reset does the same with next Resetting; neither
\* changes a pos, orientation, segment or size, nor the collection length.
C11_RearrangeAndReset ==
    /\ (op.name = "try_rearrange" /\ pre.state = Simulating) =>
           /\ cube.state = [tag |-> "Rearranging", p |-> 0, next_state |-> Simulating]
           /\ AllAtRest(cube)
           /\ PosesKept
    /\ (op.name = "try_reset" /\ pre.state = Simulating) =>
           /\ cube.state = [tag |-> "Rearranging", p |-> 0, next_state |-> Resetting]
           /\ AllAtRest(cube)
           /\ PosesKept

\* try_reset was called in state Simulating on several pieces in motion and
\* out of place.
C11_Witness ==
    /\ op.name = "try_reset"
    /\ pre.state = Simulating
    /\ Len(pre.subcubes) > 1
    /\ \E i \in 1..Len(pre.subcubes) :
           /\ pre.subcubes[i].vel # VZero
           /\ pre.subcubes[i].angular_momentum # VZero
           /\ pre.subcubes[i].pos # pre.subcubes[i].segment

\* A single fresh subcube: size 1, at the origin, identity orientation, at rest.
FreshSubcube ==
    [ segment |-> <<0, 0, 0>>, subcube_length |-> LU, pos |-> <<0, 0, 0>>,
      orientation |-> <<QU, 0, 0, 0>>, vel |-> <<0, 0, 0>>,
      angular_momentum |-> <<0, 0, 0>> ]

SteppedIn(tag) == op.name = "step" /\ pre.state.tag = tag

\* C12: a Cube::step taken in state Resetting replaces the whole collection by
\* a single fresh subcube (size 1, segment = pos = origin, identity
\* orientation, zero motion) and sets the state to Simulating.
C12_ResettingCollapses ==
    SteppedIn("Resetting") =>
        /\ cube.subcubes = <<FreshSubcube>>
        /\ cube.state = [tag |-> "Simulating"]

\* A step was taken in state Resetting on a cube in several pieces.
C12_Witness ==
    /\ SteppedIn("Resetting")
    /\ Len(pre.subcubes) > 1

\* C18 as stated: in state Resetting, Cube::step(frac) moves every subcube via
\* approach_original_arrangement(frac) and makes no transition.
C18_ResettingApproaches ==
    SteppedIn("Resetting") =>
        /\ cube.state = pre.state
        /\ Len(cube.subcubes) = Len(pre.subcubes)
        /\ \A i \in 1..Len(pre.subcubes) :
               cube.subcubes[i] = approach_original_arrangement(pre.subcubes[i], op.frac)

\* C18: in state Resetting, Cube::step(frac) moves no subcube via
\* approach_original_arrangement: whatever frac is, the state Resetting lasts
\* for this one step, after which a single piece is left and no piece of the
\* collection before survives in its approached place.
C18_ResettingLastsOneStep ==
    SteppedIn("Resetting") =>
        /\ cube.state.tag # "Resetting"
        /\ Len(cube.subcubes) = 1
        /\ \A frac \in Fracs : cube = Cube_step(pre, frac)
        /\ Len(pre.subcubes) > 1 =>
               \A i \in 1..Len(pre.subcubes) :
                   approach_original_arrangement(pre.subcubes[i], op.frac) # cube.subcubes[1]

\* A step of half a second was taken in state Resetting on several pieces.
C18_Witness ==
    /\ SteppedIn("Resetting")
    /\ op.frac = 30
    /\ Len(pre.subcubes) > 1
    /\ cube.state.tag = "Simulating"

SameGeometry(a, b) == a.segment = b.segment /\ a.subcube_length = b.subcube_length

\* The collection has the length it had before the call, and every piece the
\* segment and the size it had.
GeometryKept ==
    /\ Len(cube.subcubes) = Len(pre.subcubes)
    /\ \A i \in 1..Len(pre.subcubes) : SameGeometry(cube.subcubes[i], pre.subcubes[i])

\* C13: a subcube's segment and size are never changed by physics or
\* interpolation.  Cube::step in state Simulating or Rearranging, try_hurl_all,
\* try_rearrange and try_reset leave every segment, every size and the
\* collection length as they were, and so do Subcube::hurl, cancel_momentum,
\* reset, approach_original_arrangement and Subcube::step on the first and the
\* last piece; only an explosion or the step taken in state Resetting changes them.
C13_GeometryImmutable ==
    /\ GeometryKept \/ op.name \in {"explode_subcube", "explode_subcube_if_at_least"}
                    \/ SteppedIn("Resetting")
    /\ \A i \in Indices(cube) :
           LET s == cube.subcubes[i]
           IN  /\ SameGeometry(hurl(s, GameForce, VZero, cube.rng), s)
               /\ SameGeometry(cancel_momentum(s), s)
               /\ SameGeometry(reset(s), s)
               /\ \A frac \in Fracs :
                      /\ SameGeometry(approach_original_arrangement(s, frac), s)
                      /\ SameGeometry(Subcube_step(s, frac), s)

\* The step that ended a Rearranging window reset several pieces, one of them
\* still out of place.
C13_Witness ==
    /\ SteppedIn("Rearranging")
    /\ cube.state.tag # "Rearranging"
    /\ Len(pre.subcubes) > 1
    /\ \E i \in 1..Len(pre.subcubes) : pre.subcubes[i].pos # pre.subcubes[i].segment

\* C19: in state Simulating, Cube::step(frac) applies Subcube::step to every
\* subcube and never changes the state: the state is Simulating after the call
\* for every frac.
C19_SimulatingSteps ==
    SteppedIn("Simulating") =>
        /\ cube.state = [tag |-> "Simulating"]
        /\ cube.rng = pre.rng
        /\ Len(cube.subcubes) = Len(pre.subcubes)
        /\ \A i \in 1..Len(pre.subcubes) :
               cube.subcubes[i] = Subcube_step(pre.subcubes[i], op.frac)

\* A step was taken in state Simulating on several pieces, the first and the
\* last of them moving.
C19_Witness ==
    /\ SteppedIn("Simulating")
    /\ Len(pre.subcubes) > 1
    /\ pre.subcubes[1].vel # VZero
    /\ pre.subcubes[Len(pre.subcubes)].vel # VZero
    /\ cube.subcubes[1].pos # pre.subcubes[1].pos

\* C20: in every reachable state the next state stored inside Rearranging is
\* Simulating or Resetting, never a nested Rearranging; and the state Resetting
\* is entered only by the step that times a Rearranging out, after more than
\* the whole window of 1.5 s, never directly from Simulating.
C20_ResetThroughRearranging ==
    /\ cube.state.tag = "Rearranging" =>
           cube.state.next_state \in {[tag |-> "Simulating"], [tag |-> "Resetting"]}
    /\ (cube.state.tag = "Resetting" /\ pre.state.tag # "Resetting") =>
           /\ op.name = "step"
           /\ pre.state.tag = "Rearranging"
           /\ pre.state.next_state = [tag |-> "Resetting"]
           /\ elapsed > RearrangeWindow
           /\ pre.state.p <= RearrangeWindow

\* The state Resetting was entered, on a cube in several pieces.
C20_Witness ==
    /\ cube.state.tag = "Resetting"
    /\ pre.state.tag = "Rearranging"
    /\ Len(cube.subcubes) > 1

Picked == op.name = "get_subcube_from_ray"

\* The pieces the ray of the query hits.
HitBy == { i \in 1..Len(cube.subcubes) : op.hits[i] # <<>> }

\* The hit distance of piece i in world units: the local distance times the size.
WorldDist(i) == RDiv(op.hits[i][1] * cube.subcubes[i].subcube_length, LU)

\* C14: get_subcube_from_ray returns None exactly when no subcube's locally
\* transformed ray hits a bounded face, and otherwise the index of a subcube
\* that has a hit and whose world distance (the local hit distance times its
\* size) is at most the world distance of every other subcube that has a hit.
C14_ClosestHit ==
    Picked =>
        /\ op.result = <<>> <=> HitBy = {}
        /\ op.result # <<>> =>
               /\ op.result[1] \in HitBy
               /\ \A j \in HitBy : WorldDist(op.result[1]) <= WorldDist(j)

\* The query returned a piece other than the first, nearer in world units than
\* an earlier piece that was hit and whose local hit distance is the smaller.
C14_Witness ==
    /\ Picked
    /\ op.result # <<>>
    /\ \E j \in HitBy :
           /\ j < op.result[1]
           /\ WorldDist(op.result[1]) < WorldDist(j)
           /\ op.hits[j][1] < op.hits[op.result[1]][1]

\* The tolerance within which the fixed-point distances are compared.
Tolerance == LU \div 32

Near(a, b) == Abs(a - b) <= Tolerance

\* The distances at which the ray of the query meets the faces of piece i.
FaceDists(i) ==
    The({ { hit[1] : hit \in { plane_hit(r[1], r[2], PLANES[k][1], PLANES[k][2]) :
                               k \in 1..Len(PLANES) } \ {<<>>} } :
          r \in {new_ray(cube.subcubes[i], op.ray)} })

\* The ray passes the centre of the piece at more than the radius of the
\* sphere about the piece, or the piece lies behind the origin of the ray.
MissesBoundingVolume(subcube, ray) ==
    LET w      == VSub(subcube.pos, ray.origin)
        d      == ray.direction
        len    == ISqrt(d[1] * d[1] + d[2] * d[2] + d[3] * d[3])
        along  == w[1] * d[1] + w[2] * d[2] + w[3] * d[3]
        \* w x d / |d|: the offset of the centre from the line of the ray
        perp   == << MulDiv(w[2] * d[3] - w[3] * d[2], 1, len),
                     MulDiv(w[3] * d[1] - w[1] * d[3], 1, len),
                     MulDiv(w[1] * d[2] - w[2] * d[1], 1, len) >>
        dist2  == IF along > 0
                  THEN perp[1] * perp[1] + perp[2] * perp[2] + perp[3] * perp[3]
                  ELSE w[1] * w[1] + w[2] * w[2] + w[3] * w[3]
        radius == ISqrt((3 * subcube.subcube_length * subcube.subcube_length) \div 4)
                      + 1 + Tolerance
    IN  dist2 > radius * radius

\* C15: for a cube holding a single unit subcube, a ray that starts outside
\* it and passes through its centre along a face normal returns that subcube
\* (the first index), the nearest hit being the near face and the two face
\* hits lying half the size either side of the centre; and a ray that misses
\* the bounding volume of every subcube returns no hit.
C15_CentreAndMiss ==
    Picked =>
        /\ ( /\ Len(cube.subcubes) = 1
             /\ cube.subcubes[1].subcube_length = LU
             /\ op.ray \in CentreRays(cube.subcubes[1]) ) =>
               /\ op.result = <<1>>
               /\ Near(WorldDist(1), CentreDist - LU \div 2)
               /\ \E near, far \in FaceDists(1) :
                      /\ FaceDists(1) = {near, far}
                      /\ Near(near, CentreDist - LU \div 2)
                      /\ Near(far, CentreDist + LU \div 2)
        /\ (\A i \in 1..Len(cube.subcubes) : MissesBoundingVolume(cube.subcubes[i], op.ray)) =>
               op.result = <<>>

\* The query was made along a face normal of a single unit subcube that has
\* moved and turned.
C15_Witness ==
    /\ Picked
    /\ Len(cube.subcubes) = 1
    /\ cube.subcubes[1].subcube_length = LU
    /\ cube.subcubes[1].pos # <<0, 0, 0>>
    /\ cube.subcubes[1].orientation # <<QU, 0, 0, 0>>
    /\ op.ray \in CentreRays(cube.subcubes[1])
    /\ op.result = <<1>>

\* The query was made with a ray that misses the bounding volume of each of
\* several pieces.
C15_WitnessMiss ==
    /\ Picked
    /\ Len(cube.subcubes) > 1
    /\ \A i \in 1..Len(cube.subcubes) : MissesBoundingVolume(cube.subcubes[i], op.ray)
    /\ op.ray.direction = <<QU, 0, 0>>

Explosions == {"explode_subcube", "explode_subcube_if_at_least"}

\* C17: contract violations abort, and abort before any mutation:
\* explode_subcube and explode_subcube_if_at_least with an index at or past
\* the collection length, and explode_subcube with subdivide_count = 0, panic
\* with the collection and the state exactly as before the call; and every
\* picking hit distance passes the assertion that it is >= 0.
C17_AbortBeforeMutation ==
    /\ (op.name \in Explosions /\ op.index > Len(pre.subcubes)) =>
           op.panicked /\ cube = pre
    /\ (op.name = "explode_subcube" /\ op.subdivide_count = 0) =>
           op.panicked /\ cube = pre
    /\ Picked =>
           /\ \A i \in HitBy : op.hits[i][1] >= 0
           /\ ~op.panicked

\* explode_subcube was called with subdivide_count = 0 on the last of several
\* pieces in motion.
C17_Witness ==
    /\ op.name = "explode_subcube"
    /\ op.subdivide_count = 0
    /\ op.index = Len(pre.subcubes)
    /\ Len(pre.subcubes) > 1
    /\ pre.subcubes[op.index].vel # <<0, 0, 0>>
    /\ op.panicked

\* explode_subcube_if_at_least was called with the index one past the end.
C17_WitnessIndex ==
    /\ op.name = "explode_subcube_if_at_least"
    /\ op.index = Len(pre.subcubes) + 1
    /\ Len(pre.subcubes) > 1
    /\ op.panicked

\* |q|^2 is a number within 1/64 of 1.
F32IsUnit(q) ==
    \E m2 \in {F32QMagnitude2(q)} :
        /\ m2.k = "num"
        /\ F32Less(F32(63, -6), m2)
        /\ F32Less(m2, F32(65, -6))

\* C16: every subcube's orientation quaternion has unit length in every
\* reachable cube state.
C16_UnitOrientation ==
    \A i \in 1..Len(cube.subcubes) : F32IsUnit(cube.subcubes[i].orientation)

TickedIn(tag) == op.name = "GameState::step" /\ pre.state.tag = tag

\* The Rearranging counter is the number of ticks taken since the state
\* became Rearranging, whatever their inputs, and the window ends on the tick
\* that takes the counter past 1.5 s; Resetting ends on its first tick.
WindowKeepsTime ==
    /\ cube.state.tag = "Rearranging" =>
           /\ cube.state.p = elapsed + 1
           /\ cube.state.p <= RearrangeWindow
    /\ (TickedIn("Rearranging") /\ cube.state.tag # "Rearranging") =>
           elapsed = RearrangeWindow
    /\ TickedIn("Resetting") => cube.state = Simulating

\* C21: transient states always end.  Under game ticks with any inputs, a
\* cube in state Rearranging or Resetting returns to Simulating; no command
\* or explode request made during the window resets or extends the elapsed
\* counter, so the window lasts the same number of ticks whatever the input.
C21_TransientEnds ==
    /\ []WindowKeepsTime
    /\ InTransient(cube) ~> (cube.state = Simulating)

\* A window ended in which a piece was exploded: the two counted ticks each
\* exploded a piece, and only the first of them can have opened the window.
C21_Witness ==
    /\ TickedIn("Rearranging")
    /\ cube.state.tag # "Rearranging"
    /\ calls = MaxWindowCommands
    /\ Len(pre.subcubes) = 15

\* C22: the picked index a tick reports identifies a subcube of the
\* collection the tick leaves: whenever GameState::step returns
\* selected_subcube = Some(i), i is an index of cube.subcubes as it is when
\* step returns.
C22_PickedIndexInOutput ==
    (op.name = "GameState::step" /\ op.selected_subcube # <<>>) =>
        op.selected_subcube[1] \in 1..Len(cube.subcubes)

\* The cube before the call, with the motion of the target replaced.
PreWithMotion(vel, angular_momentum) ==
    [ pre EXCEPT !.subcubes[op.index].vel = vel,
                 !.subcubes[op.index].angular_momentum = angular_momentum ]

ExplodeRequested ==
    /\ op.name = "GameState::step"
    /\ op.input.explode_subcube
    /\ op.selected_subcube # <<>>

\* C24: the order within one GameState::step is fixed.  First at most one of
\* try_hurl_all, try_rearrange, try_reset is called, hurl_all before
\* rearrange before reset; then the pointer is resolved against the cube
\* that leaves; then the explosion, if requested and a piece is picked, is
\* applied; Cube::step runs last.  So a tick with the rearrange or the
\* reset flag and an explode request explodes in state Rearranging.
C24_TickOrder ==
    (op.name = "GameState::step") =>
        /\ op.after_commands =
              (IF op.input.hurl_all THEN try_hurl_all(pre, GameForce)
               ELSE IF op.input.rearrange THEN try_rearrange(pre)
               ELSE IF op.input.reset THEN try_reset(pre)
               ELSE pre)
        /\ op.selected_subcube =
              (IF op.input.pointer = <<>> THEN <<>>
               ELSE get_subcube_from_ray(op.after_commands, op.input.pointer[1]))
        /\ op.after_explode =
              (IF ExplodeRequested
               THEN explode_subcube_if_at_least(op.after_commands, op.selected_subcube[1],
                                                GameForce, GameSubdivideCount, GameMinLength)
               ELSE op.after_commands)
        /\ cube = Cube_step(op.after_explode, 1)
        /\ (/\ ExplodeRequested
            /\ pre.state = Simulating
            /\ ~op.input.hurl_all
            /\ op.input.rearrange \/ op.input.reset) =>
               /\ op.after_commands.state.tag = "Rearranging"
               /\ op.after_commands.state.p = 0
               /\ AllAtRest(op.after_commands)
               /\ op.after_explode.state = op.after_commands.state
               /\ ~AllAtRest(op.after_explode)

\* A tick with the rearrange and the reset flag and an explode request was
\* taken in state Simulating on a moving piece, which was divided in eight
\* after the state had become Rearranging with next state Simulating.
C24_Witness ==
    /\ ExplodeRequested
    /\ op.input.rearrange /\ op.input.reset
    /\ pre.state = Simulating
    /\ ~AllAtRest(pre)
    /\ op.after_commands.state = Rearranging(0, Simulating)
    /\ Len(op.after_explode.subcubes) = Len(op.after_commands.subcubes) + 7

\* A tick with every command flag set was taken in state Simulating: the
\* pieces were hurled and the state stayed Simulating.
C24_WitnessPriority ==
    /\ op.name = "GameState::step"
    /\ op.input.hurl_all /\ op.input.rearrange /\ op.input.reset
    /\ pre.state = Simulating
    /\ Len(pre.subcubes) > 1
    /\ cube.state = Simulating
    /\ ~AllAtRest(cube)

RECURSIVE HomeVolume(_)
\* The sum of size^3 over a sequence of subcubes, in 1/LU^3.
HomeVolume(subcubes) ==
    IF subcubes = <<>> THEN 0
    ELSE Head(subcubes).subcube_length * Head(subcubes).subcube_length
             * Head(subcubes).subcube_length + HomeVolume(Tail(subcubes))

\* The home cell of a: the axis-aligned cube of edge subcube_length centred
\* at segment.  It lies within [-0.5, 0.5]^3.
HomeInUnitCube(a) ==
    \A b \in 1..3 : 2 * Abs(a.segment[b]) + a.subcube_length <= LU

\* The home cells of a and b have no interior point in common.
HomesApart(a, b) ==
    \E c \in 1..3 :
        2 * Abs(a.segment[c] - b.segment[c]) >= a.subcube_length + b.subcube_length

\* C25: in every reachable state the home cells of the subcubes tile the
\* unit cube [-0.5, 0.5]^3 exactly: each lies within it, no two overlap, and
\* the sum of size^3 over the collection is exactly 1.
C25_HomeCellsTile ==
    /\ \A i \in 1..Len(cube.subcubes) : HomeInUnitCube(cube.subcubes[i])
    /\ \A i \in 1..Len(cube.subcubes), j \in 1..Len(cube.subcubes) :
           i < j => HomesApart(cube.subcubes[i], cube.subcubes[j])
    /\ HomeVolume(cube.subcubes) = LU * LU * LU

\* Pieces of two sizes, exploded and hurled, came out of a Rearranging window.
C25_Witness ==
    /\ op.name = "step"
    /\ pre.state.tag = "Rearranging"
    /\ cube.state.tag # "Rearranging"
    /\ Len(cube.subcubes) = 15
    /\ Cardinality(SubcubeLengths(cube)) = 2

\* 1, 1/2, 1/4, 1/8, 1/16 and 1/32 in 1/LU.
GameSizes == { LU \div (2 ^ k) : k \in 0..5 }

\* C26: under the game loop, where every explosion is made by
\* explode_subcube_if_at_least with n = 2 and min_size = 1/16, every subcube
\* size is one of 1, 1/2, 1/4, 1/8, 1/16, 1/32 (a piece of exactly min_size
\* is still subdivided once, so none is below min_size / n), the sizes cubed
\* add up to 1, and so the collection never holds more than
\* (n / min_size)^3 = 32768 pieces.
C26_GameSizes ==
    /\ SubcubeLengths(cube) \subseteq GameSizes
    /\ HomeVolume(cube.subcubes) = LU * LU * LU
    /\ \A l \in SubcubeLengths(cube) : l * GameSubdivideCount >= GameMinLength
    /\ Len(cube.subcubes) * (GameMinLength * GameMinLength * GameMinLength)
           <= (GameSubdivideCount * LU) * (GameSubdivideCount * LU) * (GameSubdivideCount * LU)

\* The collection holds pieces of 1/32, made by the explosion of a piece of
\* exactly 1/16.
C26_Witness ==
    /\ ExplodeRequested
    /\ op.after_commands.subcubes[op.selected_subcube[1]].subcube_length = GameMinLength
    /\ Len(op.after_explode.subcubes) = Len(op.after_commands.subcubes) + 7
    /\ LU \div 32 \in SubcubeLengths(cube)

\* C27: within GameState::step, explode_subcube_if_at_least is only called
\* with an index of the collection as it is at the call (the index comes
\* from the query on that collection) and with subdivide_count = 2 > 0, so
\* no tick panics on an index out of range or on the assertion on
\* subdivide_count.
C27_TickNeverAborts ==
    (op.name = "GameState::step") =>
        /\ ~op.panicked
        /\ ExplodeRequested =>
               /\ op.selected_subcube[1] \in 1..Len(op.after_commands.subcubes)
               /\ GameSubdivideCount > 0
               /\ explode_subcube_if_at_least_call(op.after_commands, op.selected_subcube[1],
                                                   GameForce, GameSubdivideCount,
                                                   GameMinLength)
                      = Ok(op.after_explode)

\* The explosion of the last piece of a collection of several was requested
\* and made.
C27_Witness ==
    /\ ExplodeRequested
    /\ Len(op.after_commands.subcubes) > 1
    /\ op.selected_subcube[1] = Len(op.after_commands.subcubes)
    /\ Len(op.after_explode.subcubes) > Len(op.after_commands.subcubes)

\* C28: the collection is never empty, and its length only grows, by
\* n^3 - 1 per explosion, except at the step taken in state Resetting, which
\* sets it to exactly 1.
C28_NeverEmpty ==
    /\ Len(cube.subcubes) >= 1
    /\ SteppedIn("Resetting") => Len(cube.subcubes) = 1
    /\ ~SteppedIn("Resetting") =>
           IF /\ op.name = "explode_subcube_if_at_least"
              /\ pre.subcubes[op.index].subcube_length >= op.min_subcube_length
           THEN Len(cube.subcubes) = Len(pre.subcubes)
                    + op.subdivide_count * op.subdivide_count * op.subdivide_count - 1
           ELSE Len(cube.subcubes) = Len(pre.subcubes)

\* The step in state Resetting was taken on a collection of eight pieces.
C28_Witness ==
    /\ SteppedIn("Resetting")
    /\ Len(pre.subcubes) = 8
    /\ Len(cube.subcubes) = 1

\* Simulation states of each kind.
SomeStates == {Simulating, Resetting, Rearranging(0, Simulating), Rearranging(45, Resetting)}

\* C29: explode_subcube and explode_subcube_if_at_least neither read nor
\* change the simulation state: the state, with the Rearranging counter and
\* the stored next state, is after the call what it was before, and the
\* subdivision and the hurls are those the call makes in any other state.
C29_ExplodeIgnoresState ==
    (op.name = "explode_subcube_if_at_least") =>
        /\ cube.state = pre.state
        /\ cube # pre
        /\ \A state \in SomeStates :
              /\ explode_subcube_if_at_least([pre EXCEPT !.state = state], op.index, op.force,
                                             op.subdivide_count, op.min_subcube_length)
                     = [cube EXCEPT !.state = state]
              /\ CanSubdivide(pre, op.index, op.subdivide_count, MaxLen) =>
                     explode_subcube([pre EXCEPT !.state = state], op.index, op.force,
                                     op.subdivide_count)
                         = [ explode_subcube(pre, op.index, op.force, op.subdivide_count)
                               EXCEPT !.state = state ]

\* A piece was divided in eight part way through a Rearranging window.
C29_Witness ==
    /\ op.name = "explode_subcube_if_at_least"
    /\ pre.state.tag = "Rearranging"
    /\ pre.state.p > 0
    /\ Len(cube.subcubes) = Len(pre.subcubes) + 7

\* A piece was divided in eight in state Resetting.
C29_WitnessResetting ==
    /\ op.name = "explode_subcube_if_at_least"
    /\ pre.state = Resetting
    /\ Len(cube.subcubes) = Len(pre.subcubes) + 7

\* C30: no velocity is integrated during Rearranging and Resetting.  A step
\* in Rearranging moves and turns each piece as it would a piece at rest and
\* leaves its velocity and angular momentum as they are; the step that
\* leaves Rearranging, and the step in Resetting, leave every subcube with
\* zero velocity and zero angular momentum.
C30_NoIntegrationInTransient ==
    /\ (SteppedIn("Rearranging") /\ cube.state.tag = "Rearranging") =>
           /\ Len(cube.subcubes) = Len(pre.subcubes)
           /\ \A i \in 1..Len(pre.subcubes) :
                  \E still \in {approach_original_arrangement(cancel_momentum(pre.subcubes[i]),
                                                              op.frac)} :
                      /\ cube.subcubes[i].pos = still.pos
                      /\ cube.subcubes[i].orientation = still.orientation
                      /\ cube.subcubes[i].vel = pre.subcubes[i].vel
                      /\ cube.subcubes[i].angular_momentum = pre.subcubes[i].angular_momentum
    /\ (SteppedIn("Rearranging") /\ cube.state.tag # "Rearranging") => AllAtRest(cube)
    /\ SteppedIn("Resetting") => AllAtRest(cube)

\* A step within the window was taken on pieces an explode had set in motion
\* during the window, away from their places.
C30_Witness ==
    /\ SteppedIn("Rearranging")
    /\ cube.state.tag = "Rearranging"
    /\ \E i \in 1..Len(pre.subcubes) :
           /\ pre.subcubes[i].vel # VZero
           /\ pre.subcubes[i].angular_momentum # VZero
           /\ pre.subcubes[i].pos # pre.subcubes[i].segment
           /\ pre.subcubes[i].orientation # QIdentity

====
